---- MODULE Spec2Model ----
(***************************************************************************)
(* Model of src/server.js: the POST /api/generate-tags handler (the batch  *)
(* loop that renders one hang tag per product and packs them in a zip) and *)
(* generateHangTagPDF (field extraction and the cursor-based layout).      *)
(*                                                                         *)
(* JavaScript values are tagged records.  Strings are sequences of tokens: *)
(* a token is one character, or one of the literals the code's regular     *)
(* expressions and string tests look for ("INCLUDES:", "<br>", "and",      *)
(* "Recon", "recon"), so that a substring test on the text is a membership *)
(* test on the tokens.  Numbers that are prices are held in cents.         *)
(*                                                                         *)
(* pdfkit and jszip are libraries: doc.text/doc.rect are recorded as the   *)
(* fields of the drawn tag, zip.file as a named entry insertion (the last  *)
(* write of a name wins), zip.generateAsync as a total function of the     *)
(* entries.  The vendor badge, the title and the image box (lines 100-133) *)
(* are not recorded: nothing below depends on them.                        *)
(***************************************************************************)
EXTENDS Integers, Sequences, FiniteSets

VARIABLES
    body,       \* req.body: [products, options]
    pc,         \* position of the handler
    i,          \* loop index of line 40, 1-based here (i + 1 of the code)
    zip,        \* entries of the JSZip object: set of [name, from]
    zipCreated, \* new JSZip() has run (line 38)
    promise,    \* state of the promise generateHangTagPDF returned
    tag,        \* what the current generateHangTagPDF call drew
    tags,       \* tag drawn for each product attempted so far
    attempts,   \* indices whose render was started, in order
    settled,    \* indices whose render resolved or rejected, in order
    inserted,   \* indices whose zip.file call ran, in order
    responses,  \* status codes sent on res, in order
    archive     \* entries of the zip buffer sent with the 200 response

vars == <<body, pc, i, zip, zipCreated, promise, tag, tags, attempts, settled,
          inserted, responses, archive>>

(***************************************************************************)
(* Bounds of the model.                                                    *)
(***************************************************************************)
MaxProducts == 3
MaxSkuLen == 2
MaxPriceLen == 2
MaxItems == 6
MaxBodyLen == 3

(***************************************************************************)
(* JavaScript values.                                                      *)
(***************************************************************************)
Undefined == [t |-> "undefined"]
Null == [t |-> "null"]
NaN == [t |-> "NaN"]
Str(s) == [t |-> "string", s |-> s]
Num(n) == [t |-> "number", n |-> n]
Arr(a) == [t |-> "array", a |-> a]

\* ToBoolean, as `||`, `!` and `if` apply it.
Truthy(v) ==
    CASE v.t = "undefined" -> FALSE
      [] v.t = "null" -> FALSE
      [] v.t = "NaN" -> FALSE
      [] v.t = "string" -> v.s # <<>>
      [] v.t = "number" -> v.n # 0
      [] OTHER -> TRUE

\* a || b
Or(a, b) == IF Truthy(a) THEN a ELSE b

RECURSIVE Digits(_)
Digits(n) ==
    LET d == <<"0", "1", "2", "3", "4", "5", "6", "7", "8", "9">>[(n % 10) + 1]
    IN IF n < 10 THEN <<d>> ELSE Append(Digits(n \div 10), d)

\* `${v}` for the values a file name or a label is built from; a number
\* here is a plain integer.
TemplateString(v) ==
    CASE v.t = "string" -> v.s
      [] v.t = "number" -> Digits(v.n)
      [] v.t = "NaN" -> <<"N", "a", "N">>
      [] OTHER -> <<v.t>>

\* All token sequences over alphabet A up to length n.
SeqsUpTo(A, n) == UNION {[1..k -> A] : k \in 0..n}

(***************************************************************************)
(* Program constants of the layout (generateHangTagPDF).                   *)
(***************************************************************************)
CursorStartY == 175
HeaderAdvance == 12
LineAdvance == 9
TrailingGap == 5
MaxIncludeItems == 4
DefaultPriceSize == 24
PriceSizeCap == 28
PriceGap == 2

(***************************************************************************)
(* Products.  An element of `products` is null or an object; an object's   *)
(* absent key reads as undefined.                                          *)
(***************************************************************************)
EmptyProduct ==
    [t |-> "object", sku |-> Undefined, handle |-> Undefined,
     VariantSKU |-> Undefined, tags |-> Undefined, price |-> Undefined,
     VariantPrice |-> Undefined, compare_at_price |-> Undefined,
     VariantCompareAtPrice |-> Undefined, body_html |-> Undefined,
     BodyHTML |-> Undefined]

(***************************************************************************)
(* Lines 84-87: isRecon.  v?.m(x) is undefined for a nullish v, throws a   *)
(* TypeError when v has no method m, and is the method's result otherwise; *)
(* the || chain stops at the first truthy operand and evaluates no more.   *)
(***************************************************************************)
\* String.prototype.includes is a substring test, Array.prototype.includes
\* an element test.
Includes(v, tok) ==
    IF v.t = "string"
    THEN \E k \in 1..Len(v.s) : v.s[k] = tok
    ELSE \E k \in 1..Len(v.a) : v.a[k] = Str(<<tok>>)

EndsWith(s, suffix) ==
    /\ Len(s) >= Len(suffix)
    /\ SubSeq(s, Len(s) - Len(suffix) + 1, Len(s)) = suffix

OptIncludes(v, tok) ==
    IF v.t \in {"undefined", "null"} THEN "undefined"
    ELSE IF v.t \in {"string", "array"}
         THEN (IF Includes(v, tok) THEN "true" ELSE "false")
         ELSE "throw"

OptEndsWith(v, suffix) ==
    IF v.t \in {"undefined", "null"} THEN "undefined"
    ELSE IF v.t = "string"
         THEN (IF EndsWith(v.s, suffix) THEN "true" ELSE "false")
         ELSE "throw"

\* a || b || ... over operands given in evaluation order.
RECURSIVE OrChain(_)
OrChain(ops) ==
    IF Len(ops) = 1 \/ Head(ops) \in {"true", "throw"}
    THEN Head(ops)
    ELSE OrChain(Tail(ops))

DashR == <<"-", "R">>

\* isRecon testing only the identifier shown after "Model ".
isReconIdentifierOnly(product) ==
    OrChain(<<OptIncludes(product.tags, "Recon"),
              OptIncludes(product.tags, "recon"),
              OptEndsWith(Or(product.sku, product.VariantSKU), DashR)>>)

isRecon(product) ==
    OrChain(<<OptIncludes(product.tags, "Recon"),
              OptIncludes(product.tags, "recon"),
              OptEndsWith(product.sku, DashR),
              OptEndsWith(product.VariantSKU, DashR)>>)

(***************************************************************************)
(* Lines 89-90: parseFloat and the price fields; line 169: toFixed(2).     *)
(* A price string is made of digits and non-numeric characters; parseFloat *)
(* reads the longest leading run of digits and is NaN when there is none.  *)
(***************************************************************************)
IsDigit(c) == c \in {"0", "1", "2", "3", "4", "5", "6", "7", "8", "9"}

DigitValue(c) ==
    CASE c = "0" -> 0 [] c = "1" -> 1 [] c = "2" -> 2 [] c = "3" -> 3
      [] c = "4" -> 4 [] c = "5" -> 5 [] c = "6" -> 6 [] c = "7" -> 7
      [] c = "8" -> 8 [] c = "9" -> 9

\* Value, in whole units, of the leading digits of s read so far as acc.
RECURSIVE LeadingDigits(_, _)
LeadingDigits(s, acc) ==
    IF s = <<>> \/ ~IsDigit(Head(s)) THEN acc
    ELSE LeadingDigits(Tail(s), 10 * acc + DigitValue(Head(s)))

parseFloat(v) ==
    CASE v.t = "number" -> v
      [] v.t = "string" ->
            IF v.s = <<>> \/ ~IsDigit(Head(v.s)) THEN NaN
            ELSE Num(100 * LeadingDigits(v.s, 0))
      [] OTHER -> NaN

price(product) ==
    parseFloat(Or(product.price, Or(product.VariantPrice, Num(0))))

comparePrice(product) ==
    parseFloat(Or(product.compare_at_price,
                  Or(product.VariantCompareAtPrice, Num(0))))

\* x.toFixed(2) of an amount held in cents.
toFixed2(x) ==
    IF x.t = "NaN" THEN <<"N", "a", "N">>
    ELSE Digits(x.n \div 100) \o <<".">> \o
         <<Digits((x.n % 100) \div 10)[1], Digits(x.n % 10)[1]>>

\* a > b on numbers: false when either is NaN.
Greater(a, b) == a.t = "number" /\ b.t = "number" /\ a.n > b.n

\* Line 93.
sku(product) == Or(product.sku, Or(product.VariantSKU, Str(<<>>)))

(***************************************************************************)
(* Lines 96-98: the INCLUDES: marker.  The regular expression              *)
(*   /INCLUDES\s*:\s*(.*?)(?:<\/?[^>]*>|$)/i                               *)
(* is tried at each marker from the left.  After the marker \s* takes the  *)
(* white space (line breaks too); the lazy group then runs over tokens     *)
(* other than a line break until a markup tag or the end of the input; it  *)
(* cannot cross a line break, and then the match fails at this marker.     *)
(***************************************************************************)
Marker == "INCLUDES:"
Markup == "<br>"
LineBreak == "NL"

IsSpace(c) == c \in {" ", LineBreak}

bodyHtml(product) == Or(product.body_html, Or(product.BodyHTML, Str(<<>>)))

\* First index >= k of b that holds no white space (Len(b) + 1 if none).
RECURSIVE SkipSpaces(_, _)
SkipSpaces(b, k) ==
    IF k > Len(b) \/ ~IsSpace(b[k]) THEN k ELSE SkipSpaces(b, k + 1)

\* First index >= k of b that holds a tag or a line break (Len(b) + 1 if none).
RECURSIVE GroupEnd(_, _)
GroupEnd(b, k) ==
    IF k > Len(b) \/ b[k] \in {Markup, LineBreak} THEN k
    ELSE GroupEnd(b, k + 1)

MatchesAt(b, p) ==
    /\ b[p] = Marker
    /\ LET e == GroupEnd(b, SkipSpaces(b, p + 1))
       IN e > Len(b) \/ b[e] = Markup

\* includesMatch: [found, group] with group the text of (.*?).
includesMatch(b) ==
    IF \E p \in 1..Len(b) : MatchesAt(b, p)
    THEN LET p == CHOOSE q \in 1..Len(b) :
                    /\ MatchesAt(b, q)
                    /\ \A r \in 1..(q - 1) : ~MatchesAt(b, r)
             s == SkipSpaces(b, p + 1)
         IN [found |-> TRUE, group |-> SubSeq(b, s, GroupEnd(b, s) - 1)]
    ELSE [found |-> FALSE, group |-> <<>>]

\* .replace(/<[^>]*>/g, '')
StripMarkup(s) == SelectSeq(s, LAMBDA c : c # Markup)

RECURSIVE TrimLeft(_)
TrimLeft(s) == IF s # <<>> /\ IsSpace(Head(s)) THEN TrimLeft(Tail(s)) ELSE s

RECURSIVE TrimRight(_)
TrimRight(s) ==
    IF s # <<>> /\ IsSpace(s[Len(s)])
    THEN TrimRight(SubSeq(s, 1, Len(s) - 1))
    ELSE s

\* String.prototype.trim
Trim(s) == TrimRight(TrimLeft(s))

includesText(b) ==
    LET m == includesMatch(b)
    IN IF m.found THEN Trim(StripMarkup(m.group)) ELSE <<>>

(***************************************************************************)
(* Lines 146-149: split(/[,;]|and\s+/i), trim, drop the empty, slice(0,4). *)
(* A separator is a comma, a semicolon, or the letters "and" followed by   *)
(* white space (all of it is consumed), wherever the letters stand.        *)
(***************************************************************************)
\* Pieces of t from index k on, cur being the piece under construction.
RECURSIVE SplitFrom(_, _, _)
SplitFrom(t, k, cur) ==
    IF k > Len(t) THEN <<cur>>
    ELSE IF t[k] \in {",", ";"} THEN <<cur>> \o SplitFrom(t, k + 1, <<>>)
    ELSE IF t[k] = "and" /\ k < Len(t) /\ IsSpace(t[k + 1])
         THEN <<cur>> \o SplitFrom(t, SkipSpaces(t, k + 1), <<>>)
    ELSE SplitFrom(t, k + 1, Append(cur, t[k]))

Split(t) == SplitFrom(t, 1, <<>>)

\* .slice(0, n)
Slice(s, n) == SubSeq(s, 1, IF Len(s) < n THEN Len(s) ELSE n)

includeItems(text) ==
    LET pieces == Split(text)
        trimmed == [k \in 1..Len(pieces) |-> Trim(pieces[k])]
    IN Slice(SelectSeq(trimmed, LAMBDA x : Len(x) > 0), MaxIncludeItems)

(***************************************************************************)
(* Lines 68-203: generateHangTagPDF.  The value is what was drawn, with ok *)
(* FALSE when the body threw (the promise is rejected) and TRUE when       *)
(* doc.end() was reached (the promise resolves on the 'end' event).        *)
(***************************************************************************)
NoTag ==
    [ok |-> FALSE, model |-> <<>>, header |-> FALSE, bullets |-> <<>>,
     priceY |-> 0, price |-> NaN, priceText |-> <<>>, comparePrice |-> NaN,
     msrp |-> FALSE, msrpY |-> 0, msrpText |-> <<>>, banner |-> FALSE,
     bannerSku |-> <<>>]

\* Line 163-164 with options = {} (line 30): parseInt(undefined) || 24.
scaledPriceSize ==
    IF DefaultPriceSize < PriceSizeCap THEN DefaultPriceSize ELSE PriceSizeCap

generateHangTagPDF(product) ==
    IF product.t = "null" THEN NoTag  \* product.tags throws a TypeError
    ELSE
    LET recon == isRecon(product)
        html == bodyHtml(product)
    IN IF recon = "throw" \/ html.t # "string" THEN NoTag
       ELSE LET text == includesText(html.s)
                items == IF text # <<>> THEN includeItems(text) ELSE <<>>
                y == IF text # <<>>
                     THEN CursorStartY + HeaderAdvance
                          + LineAdvance * Len(items) + TrailingGap
                     ELSE CursorStartY
                p == price(product)
                c == comparePrice(product)
                showMsrp == Greater(c, p) /\ Greater(c, Num(0))
            IN [ok |-> TRUE,
                model |-> <<"Model ">> \o TemplateString(sku(product)),
                header |-> text # <<>>,
                bullets |-> items,
                priceY |-> y,
                price |-> p,
                priceText |-> <<"$">> \o toFixed2(p),
                comparePrice |-> c,
                msrp |-> showMsrp,
                msrpY |-> IF showMsrp THEN y + scaledPriceSize + PriceGap ELSE 0,
                msrpText |-> IF showMsrp THEN <<"MSRP $">> \o toFixed2(c)
                             ELSE <<>>,
                banner |-> recon = "true",
                bannerSku |-> IF recon = "true"
                              THEN TemplateString(sku(product)) ELSE <<>>]

(***************************************************************************)
(* Lines 28-65: app.post('/api/generate-tags').                            *)
(***************************************************************************)
products == body.products

\* Line 32 without the Array.isArray test.
validProductsTruthyOnly(v) == Truthy(v)

\* Line 32, negated: !(!products || !Array.isArray(products)).
validProducts(v) == Truthy(v) /\ v.t = "array"

\* products.length and products[k - 1]; an index into a string reads a
\* one-character string, whose properties all read as undefined.
Length(v) ==
    IF v.t = "array" THEN Len(v.a) ELSE IF v.t = "string" THEN Len(v.s) ELSE 0

ElementAt(v, k) == IF v.t = "array" THEN v.a[k] ELSE EmptyProduct

\* Line 46; idx is the code's i + 1.
filename(product, idx) ==
    TemplateString(Or(product.sku,
                      Or(product.handle, Str(<<"product-">> \o Digits(idx)))))
        \o <<"-hangtag.pdf">>

\* Line 47: zip.file(name, pdfBuffer); the buffer is named by its product.
ZipFile(z, name, idx) ==
    {e \in z : e.name # name} \cup {[name |-> name, from |-> idx]}

\* A catch block that stores a placeholder entry for the failed item.
OnItemErrorPlaceholder(z, product, idx) ==
    ZipFile(z, filename(product, idx), idx)

\* Lines 48-51: the catch block of one item logs and leaves the zip alone.
OnItemError(z, product, idx) == z

\* A loop that stays on the item (it is rendered again).
NextIndexRetry(k) == k

\* Line 40: i++.
NextIndex(k) == k + 1

\* Lines 29-38.  A body without a list of products is answered with 400.
Reject ==
    /\ pc = "recv"
    /\ ~validProducts(products)
    /\ responses' = Append(responses, 400)
    /\ pc' = "done"
    /\ UNCHANGED <<body, i, zip, zipCreated, promise, tag, tags, attempts,
                   settled, inserted, archive>>

Accept ==
    /\ pc = "recv"
    /\ validProducts(products)
    /\ zipCreated' = TRUE
    /\ zip' = {}
    /\ i' = 1
    /\ pc' = "loop"
    /\ UNCHANGED <<body, promise, tag, tags, attempts, settled, inserted,
                   responses, archive>>

\* Lines 41-42 on a null element: product.sku throws a TypeError outside the
\* item's try block; the handler's catch (lines 61-64) answers 500.
LogThrows ==
    /\ pc = "loop"
    /\ i <= Length(products)
    /\ ElementAt(products, i).t = "null"
    /\ responses' = Append(responses, 500)
    /\ pc' = "done"
    /\ UNCHANGED <<body, i, zip, zipCreated, promise, tag, tags, attempts,
                   settled, inserted, archive>>

\* Lines 41-45: the call of generateHangTagPDF runs the promise's executor to
\* its end: the promise is rejected at once when the body throws, and stays
\* pending until the document's 'end' event otherwise.
StartRender ==
    /\ pc = "loop"
    /\ i <= Length(products)
    /\ ElementAt(products, i).t # "null"
    /\ LET drawn == generateHangTagPDF(ElementAt(products, i))
       IN /\ tag' = drawn
          /\ tags' = Append(tags, drawn)
          /\ promise' = IF drawn.ok THEN "pending" ELSE "rejected"
          /\ settled' = IF drawn.ok THEN settled ELSE Append(settled, i)
    /\ attempts' = Append(attempts, i)
    /\ pc' = "await"
    /\ UNCHANGED <<body, i, zip, zipCreated, inserted, responses, archive>>

\* Lines 78-80: doc.on('end') resolves the promise.
DocEnd ==
    /\ pc = "await"
    /\ promise = "pending"
    /\ promise' = "fulfilled"
    /\ settled' = Append(settled, i)
    /\ UNCHANGED <<body, pc, i, zip, zipCreated, tag, tags, attempts,
                   inserted, responses, archive>>

\* Lines 45-47 after the await, then i++.
ItemDone ==
    /\ pc = "await"
    /\ promise = "fulfilled"
    /\ zip' = ZipFile(zip, filename(ElementAt(products, i), i), i)
    /\ inserted' = Append(inserted, i)
    /\ i' = NextIndex(i)
    /\ promise' = "none"
    /\ pc' = "loop"
    /\ UNCHANGED <<body, zipCreated, tag, tags, attempts, settled, responses,
                   archive>>

\* Lines 48-51, then i++.
ItemFailed ==
    /\ pc = "await"
    /\ promise = "rejected"
    /\ zip' = OnItemError(zip, ElementAt(products, i), i)
    /\ i' = NextIndex(i)
    /\ promise' = "none"
    /\ pc' = "loop"
    /\ UNCHANGED <<body, zipCreated, tag, tags, attempts, settled, inserted,
                   responses, archive>>

\* Lines 54-60: the loop is over; the zip is generated and sent.
Finish ==
    /\ pc = "loop"
    /\ i > Length(products)
    /\ archive' = zip
    /\ responses' = Append(responses, 200)
    /\ pc' = "done"
    /\ UNCHANGED <<body, i, zip, zipCreated, promise, tag, tags, attempts,
                   settled, inserted>>

Next ==
    \/ Reject
    \/ Accept
    \/ LogThrows
    \/ StartRender
    \/ DocEnd
    \/ ItemDone
    \/ ItemFailed
    \/ Finish

(***************************************************************************)
(* Requests.                                                               *)
(***************************************************************************)
SkuA == Str(<<"A">>)

BatchProducts ==
    { Null,
      EmptyProduct,
      [EmptyProduct EXCEPT !.sku = SkuA],
      [EmptyProduct EXCEPT !.sku = SkuA, !.tags = Num(7)],
      [EmptyProduct EXCEPT !.VariantSKU = Str(<<"B">>)],
      [EmptyProduct EXCEPT !.handle = Str(<<"h">>)],
      [EmptyProduct EXCEPT !.body_html = Num(7)] }

NotLists == {Undefined, Null, Num(0), Num(7), Str(<<>>), Str(<<"A", "B">>)}

Start(first) ==
    /\ pc = first
    /\ i = 0
    /\ zip = {}
    /\ zipCreated = FALSE
    /\ promise = "none"
    /\ tag = NoTag
    /\ tags = <<>>
    /\ attempts = <<>>
    /\ settled = <<>>
    /\ inserted = <<>>
    /\ responses = <<>>
    /\ archive = {}

Init ==
    /\ body \in [products : NotLists \cup
                   {Arr(a) : a \in SeqsUpTo(BatchProducts, MaxProducts)}]
    /\ Start("recv")

Spec == Init /\ [][Next]_vars

(***************************************************************************)
(* generateHangTagPDF on its own: one record is drawn.                     *)
(***************************************************************************)
RenderTag ==
    /\ pc = "render"
    /\ tag' = generateHangTagPDF(ElementAt(products, 1))
    /\ pc' = "drawn"
    /\ UNCHANGED <<body, i, zip, zipCreated, promise, tags, attempts, settled,
                   inserted, responses, archive>>

NextRender == RenderTag

OneProduct(p) == [products |-> Arr(<<p>>)]

product == ElementAt(products, 1)

\* Records for the reconditioned flag.
SkuValues ==
    {Undefined, Num(5)} \cup
    {Str(x) : x \in SeqsUpTo({"A", "-", "R"}, MaxSkuLen)}

TagsValues ==
    { Undefined, Null, Num(1), Str(<<>>), Str(<<"x">>), Str(<<"Recon">>),
      Str(<<"x", "recon", "x">>), Arr(<<>>), Arr(<<Str(<<"x">>)>>),
      Arr(<<Str(<<"Recon">>)>>), Arr(<<Str(<<"x">>), Str(<<"recon">>)>>),
      Arr(<<Str(<<"Recon", "x">>)>>) }

InitRecon ==
    /\ body \in {OneProduct([EmptyProduct EXCEPT !.sku = s, !.VariantSKU = v,
                                                 !.tags = g]) :
                   s \in SkuValues, v \in SkuValues, g \in TagsValues}
    /\ Start("render")

SpecRecon == InitRecon /\ [][NextRender]_vars

\* Records for the prices.
PriceValues ==
    {Undefined, Num(0), Num(1999), Num(2000)} \cup
    {Str(x) : x \in SeqsUpTo({"2", "x"}, MaxPriceLen)}

InitPrice ==
    /\ body \in {OneProduct([EmptyProduct EXCEPT
                               !.price = a, !.VariantPrice = b,
                               !.compare_at_price = c,
                               !.VariantCompareAtPrice = d]) :
                   a \in PriceValues, b \in PriceValues,
                   c \in PriceValues, d \in {Undefined, Num(2500), Str(<<"x">>)}}
    /\ Start("render")

SpecPrice == InitPrice /\ [][NextRender]_vars

\* Records for the includes block: every short text over the tokens the
\* parsing looks at, and lists of up to MaxItems items after a marker.
BodyTokens == {Marker, Markup, LineBreak, " ", ",", ";", "and", "B"}

ItemTexts == {<<"B">>, <<"H", "and", " ", "S">>}

Separators == {<<",", " ">>, <<" ", "and", " ">>}

RECURSIVE Join(_, _)
Join(items, seps) ==
    IF Len(items) = 1 THEN items[1]
    ELSE items[1] \o seps[1] \o Join(Tail(items), Tail(seps))

ListBodies ==
    UNION {{<<Marker, " ">> \o Join(items, seps) \o tail :
              items \in [1..n -> ItemTexts],
              seps \in [1..(n - 1) -> Separators],
              tail \in {<<>>, <<Markup, "B">>}} : n \in 1..MaxItems}

InitIncludes ==
    /\ body \in {OneProduct([EmptyProduct EXCEPT !.body_html = Str(b)]) :
                   b \in SeqsUpTo(BodyTokens, MaxBodyLen) \cup ListBodies}
    /\ Start("render")

SpecIncludes == InitIncludes /\ [][NextRender]_vars

(***************************************************************************)
(* Properties of the batch handler (specification Spec).                   *)
(***************************************************************************)
IsList == products.t = "array"

\* The render of the k-th product resolves.
Renders(k) == generateHangTagPDF(ElementAt(products, k)).ok

Range(f) == {f[k] : k \in 1..Len(f)}

\* C1: a failure raised for one item of the list, whatever the record is,
\* is caught at the item: the loop still runs through every later product
\* and the response is the 200 with the zip.
C1_ItemFailureNeverAbortsBatch ==
    (IsList /\ pc = "done") =>
        /\ i > Length(products)
        /\ responses = <<200>>

\* C2: when products is missing or is not a list the answer is 400, and no
\* product is rendered, no zip is created, no entry is inserted and no
\* archive is sent.
C2_NonListRejectedBeforeProcessing ==
    ~IsList =>
        /\ attempts = <<>>
        /\ inserted = <<>>
        /\ ~zipCreated
        /\ zip = {}
        /\ \A k \in 1..Len(responses) : responses[k] # 200
        /\ pc = "done" => responses = <<400>>

C2_Witness ==
    /\ pc = "done"
    /\ products.t = "string"
    /\ Truthy(products)
    /\ responses = <<400>>

\* C3: the zip (and the archive sent) never holds more entries than products
\* processed so far; each entry is named by the file name of the product of
\* the input it was rendered from, whose render resolved; a product whose
\* render was rejected is the origin of no entry.
EntriesFromRenderedProducts(z) ==
    \A e \in z :
        /\ e.from \in 1..Length(products)
        /\ e.from \in Range(settled)
        /\ Renders(e.from)
        /\ e.name = filename(ElementAt(products, e.from), e.from)

C3_EntriesOnlyFromRenderedProducts ==
    /\ Cardinality(zip) <= Len(settled)
    /\ Cardinality(archive) <= Len(settled)
    /\ EntriesFromRenderedProducts(zip)
    /\ EntriesFromRenderedProducts(archive)
    /\ \A k \in 1..Length(products) :
          ~Renders(k) => \A e \in zip \cup archive : e.from # k

\* A batch is answered with an archive although one product failed, and the
\* failed product's file name is that of a product that rendered.
C3_Witness ==
    /\ pc = "done"
    /\ responses = <<200>>
    /\ archive # {}
    /\ \E k \in 1..Length(products) :
          /\ ~Renders(k)
          /\ \E e \in archive :
                e.name = filename(ElementAt(products, k), k)

\* C4: an entry is named identifier + "-hangtag.pdf", the identifier being
\* the record's sku, else its Variant SKU, else product-{index}; it is the
\* identifier printed after "Model " when sku or Variant SKU is present.
ClaimedIdentifier(p, idx) ==
    IF Truthy(p.sku) THEN TemplateString(p.sku)
    ELSE IF Truthy(p.VariantSKU) THEN TemplateString(p.VariantSKU)
    ELSE <<"product-">> \o Digits(idx)

C4_EntryNamedBySkuElseVariantSku ==
    \A e \in zip :
        LET p == ElementAt(products, e.from)
            id == ClaimedIdentifier(p, e.from)
        IN /\ e.name = id \o <<"-hangtag.pdf">>
           /\ (Truthy(p.sku) \/ Truthy(p.VariantSKU)) =>
                 generateHangTagPDF(p).model = <<"Model ">> \o id

\* C5: products are rendered one at a time in input order: the renders
\* started are products 1, 2, ... each once, at most one render is unsettled
\* and it is the last one started, and entries are inserted in input order.
C5_SequentialInOrderNoRetry ==
    /\ \A k \in 1..Len(attempts) : attempts[k] = k
    /\ \A k \in 1..Len(settled) : settled[k] = k
    /\ Len(settled) <= Len(attempts)
    /\ Len(attempts) <= Len(settled) + 1
    /\ (promise = "pending") <=> (Len(attempts) = Len(settled) + 1)
    /\ \A j, k \in 1..Len(inserted) : j < k => inserted[j] < inserted[k]

C5_Witness ==
    /\ pc = "done"
    /\ Len(attempts) = MaxProducts
    /\ Len(inserted) = 2
    /\ inserted[1] = 1
    /\ inserted[2] = MaxProducts

\* C6: for a list, exactly one response is sent, and none is sent while a
\* product of the list is still unprocessed.
C6_OneResponseAfterAllProducts ==
    IsList =>
        /\ Len(responses) <= 1
        /\ pc = "done" => Len(responses) = 1
        /\ responses # <<>> => i > Length(products)

(***************************************************************************)
(* Properties of the reconditioned banner (specification SpecRecon).       *)
(***************************************************************************)
HasReconTag(v) ==
    /\ v.t \in {"string", "array"}
    /\ Includes(v, "Recon") \/ Includes(v, "recon")

EndsDashR(v) == v.t = "string" /\ EndsWith(v.s, DashR)

Numeric(v) ==
    \/ v.t = "number"
    \/ v.t = "string" /\ v.s # <<>> /\ IsDigit(Head(v.s))

ZeroText == <<"$", "0", ".", "0", "0">>

\* C8: the extracted price and compare price are never not-a-number; when
\* both keys of a price are missing or non-numeric the value is 0, and the
\* price text is then "$0.00".
C8_PriceNeverNaNAndZeroByDefault ==
    (pc = "drawn" /\ tag.ok) =>
        /\ tag.price.t = "number"
        /\ tag.comparePrice.t = "number"
        /\ (~Numeric(product.price) /\ ~Numeric(product.VariantPrice)) =>
              (tag.price = Num(0) /\ tag.priceText = ZeroText)
        /\ (~Numeric(product.compare_at_price)
              /\ ~Numeric(product.VariantCompareAtPrice)) =>
              tag.comparePrice = Num(0)

(***************************************************************************)
(* Properties of the includes block (specification SpecIncludes).          *)
(***************************************************************************)
IsLetter(c) == c \notin {" ", ",", ";", LineBreak, Markup, Marker}

\* The letters "and" standing as a word of t at index k.
IsWordAnd(t, k) ==
    /\ t[k] = "and"
    /\ k = 1 \/ ~IsLetter(t[k - 1])
    /\ k = Len(t) \/ ~IsLetter(t[k + 1])

RECURSIVE WordSplitFrom(_, _, _)
WordSplitFrom(t, k, cur) ==
    IF k > Len(t) THEN <<cur>>
    ELSE IF t[k] \in {",", ";"} \/ IsWordAnd(t, k)
         THEN <<cur>> \o WordSplitFrom(t, k + 1, <<>>)
         ELSE WordSplitFrom(t, k + 1, Append(cur, t[k]))

\* The matched text split on commas, semicolons or the word "and", trimmed,
\* the empty fragments dropped.
ClaimedItems(text) ==
    LET pieces == WordSplitFrom(text, 1, <<>>)
        trimmed == [k \in 1..Len(pieces) |-> Trim(pieces[k])]
    IN SelectSeq(trimmed, LAMBDA x : Len(x) > 0)

\* C9: with an INCLUDES: marker, the bullets drawn are the first min(4, n)
\* of the n items got by splitting the matched text on commas, semicolons
\* or the word "and", trimming and dropping the empty fragments.
C9_BulletsAreFirstFourOfWordSplit ==
    (pc = "drawn" /\ tag.ok /\ includesMatch(product.body_html.s).found) =>
        tag.bullets =
            Slice(ClaimedItems(includesText(product.body_html.s)),
                  MaxIncludeItems)

\* C10: the header is drawn only with a non-empty list of items: with no
\* item there is no header and the price is at 175; with k items the header
\* is drawn and the price is at 175 + 12 + 9 * k + 5.
C10_HeaderOnlyWithItems ==
    (pc = "drawn" /\ tag.ok) =>
        LET k == Len(tag.bullets)
        IN IF k = 0
           THEN ~tag.header /\ tag.priceY = CursorStartY
           ELSE /\ tag.header
                /\ k <= MaxIncludeItems
                /\ tag.priceY = CursorStartY + HeaderAdvance
                                  + LineAdvance * k + TrailingGap

====
